---- MODULE Spec2Model ----
(***************************************************************************)
(* NTCore Python SDK: the Client facade's run lifecycle (start_run, log_*,  *)
(* save_model), the Experiment run handle, the model serializer and the     *)
(* request builder of sdk/python/ntcore.                                    *)
(*                                                                         *)
(* One caller thread drives the client.  Python values are records with a   *)
(* "type" field; a str is the sequence of its characters.                   *)
(***************************************************************************)
EXTENDS Integers, Sequences, FiniteSets, TLC

VARIABLES
    experiments,  \* every Experiment created by start_run, in creation order
    queue,        \* Client._queue: indices into experiments, oldest first
    pc,           \* "ready", or "blocked" inside Queue.get()
    last,         \* what the most recent call of the caller did
    paths,        \* the arguments of a direct __build_url call
    built         \* the result of that call

vars == <<experiments, queue, pc, last, paths, built>>

-----------------------------------------------------------------------------
(* Bounds *)

\* start_run calls made on one client
MaxRuns == 2
\* path segments handed to __build_url
MaxSegs == 2
\* characters in one path segment
MaxSegLen == 4

-----------------------------------------------------------------------------
(* Python values *)

PyNone == [type |-> "NoneType"]

PyStr(chars) == [type |-> "str", chars |-> chars]

\* A dict is the sequence of its items in insertion order.
PyDict(items) == [type |-> "dict", items |-> items]

\* A model object is known by the categories its class is an instance of.
Categories == {"estimator", "network", "module"}

PyModel(bases) == [type |-> "model", bases |-> bases]

\* The models handed to save_model: of no category, of one, and of two
\* (a class that inherits from two frameworks' base classes).
Models ==
    {PyModel(b) : b \in {{}, {"estimator"}, {"network"}, {"module"},
                          {"estimator", "network"}, {"network", "module"}}}

\* The models a caller stores on a run handle.
HandleModels == {PyModel({"network"})}

EmptyDict == PyDict(<<>>)

Metadata == {EmptyDict, PyDict(<< <<"lr", 1>> >>)}

WorkspaceIds == {PyNone, PyStr(<<"w", "1">>)}

Sep == "/"

Alphabet == {Sep, "a"}

-----------------------------------------------------------------------------
(* Request builder *)

RECURSIVE lstrip(_)
lstrip(s) ==
    IF s # <<>> /\ Head(s) = Sep THEN lstrip(Tail(s)) ELSE s

RECURSIVE rstrip(_)
rstrip(s) ==
    IF s # <<>> /\ s[Len(s)] = Sep THEN rstrip(SubSeq(s, 1, Len(s) - 1)) ELSE s

\* Mutant: only the leading separators are stripped.
strip_leading_only(s) == lstrip(s)

\* str.strip('/')
strip(s) == rstrip(lstrip(s))

RECURSIVE join(_)
\* '/'.join(segs)
join(segs) ==
    IF segs = <<>> THEN <<>>
    ELSE IF Len(segs) = 1 THEN segs[1]
    ELSE segs[1] \o <<Sep>> \o join(Tail(segs))

stripAll(ps) == [i \in 1..Len(ps) |-> strip(ps[i])]

\* Client.__build_url(*paths)
build_url(ps) == join(stripAll(ps))

-----------------------------------------------------------------------------
(* JSON text of a metadata dict *)

RECURSIVE json_items(_)
json_items(items) ==
    IF items = <<>> THEN ""
    ELSE "\"" \o items[1][1] \o "\": " \o ToString(items[1][2])
         \o (IF Len(items) > 1 THEN ", " ELSE "")
         \o json_items(Tail(items))

\* json.dumps(d)
json_dumps(d) == "{" \o json_items(d.items) \o "}"

\* str.encode('utf-8')
encode_utf8(text) == [type |-> "bytes", encoding |-> "utf-8", text |-> text]

\* base64.b64encode(data)
b64encode(data) == [type |-> "bytes", base64_of |-> data]

\* integrations.utils.get_runtime_version()
get_runtime_version == "python-runtime"

-----------------------------------------------------------------------------
(* Run handle *)

\* Experiment.__init__(client, workspace_id)
Experiment(workspace_id) ==
    [workspace_id |-> workspace_id,
     runtime |-> PyNone,
     framework |-> PyNone,
     pretraining_metadata |-> EmptyDict,
     posttraining_metadata |-> EmptyDict,
     serializable_model |-> PyNone]

-----------------------------------------------------------------------------
(* queue.Queue *)

\* Queue.put(item): append at the tail
QueuePut(q, item) == Append(q, item)

\* Mutant: a LIFO queue, get() returns the newest item.
QueueGetNewest(q) ==
    [item |-> q[Len(q)], rest |-> SubSeq(q, 1, Len(q) - 1)]

\* Queue.get() on a non-empty queue: the oldest item, and what is left
QueueGet(q) == [item |-> Head(q), rest |-> Tail(q)]

\* queue.Queue defines neither __len__ nor __getitem__: len(self._queue)
\* raises TypeError whatever the queue holds.
QueueHasLen == FALSE

-----------------------------------------------------------------------------
(* Model serializer *)

\* isinstance(model, cls)
isinstance(model, category) == model.type = "model" /\ category \in model.bases

\* Mutant: the layered-network test comes before the estimator test.
serialize_model_network_first(model) ==
    IF isinstance(model, "network") THEN
        [type |-> "tuple",
         serialized_model |-> [type |-> "bytes", format |-> "tar.gz", of |-> model],
         model_file |-> [type |-> "file", suffix |-> ".tar.gz"],
         framework |-> "tensorflow"]
    ELSE IF isinstance(model, "estimator") THEN
        [type |-> "tuple",
         serialized_model |-> [type |-> "bytes", format |-> "pickle", of |-> model],
         model_file |-> PyNone,
         framework |-> "sklearn"]
    ELSE IF isinstance(model, "module") THEN
        [type |-> "tuple",
         serialized_model |-> [type |-> "bytes", format |-> "torchscript", of |-> model],
         model_file |-> [type |-> "file", suffix |-> ".pt"],
         framework |-> "pytorch"]
    ELSE PyNone

\* Client.__serialize_model(model): (bytes, file handle, framework tag), or
\* None when no branch matches (the function has no else branch).
serialize_model(model) ==
    IF isinstance(model, "estimator") THEN
        [type |-> "tuple",
         serialized_model |-> [type |-> "bytes", format |-> "pickle", of |-> model],
         model_file |-> PyNone,
         framework |-> "sklearn"]
    ELSE IF isinstance(model, "network") THEN
        [type |-> "tuple",
         serialized_model |-> [type |-> "bytes", format |-> "tar.gz", of |-> model],
         model_file |-> [type |-> "file", suffix |-> ".tar.gz"],
         framework |-> "tensorflow"]
    ELSE IF isinstance(model, "module") THEN
        [type |-> "tuple",
         serialized_model |-> [type |-> "bytes", format |-> "torchscript", of |-> model],
         model_file |-> [type |-> "file", suffix |-> ".pt"],
         framework |-> "pytorch"]
    ELSE PyNone

-----------------------------------------------------------------------------
(* The record of one call *)

NotCalled == [type |-> "notcalled"]

Raised == [type |-> "raised"]

NoPayload == [type |-> "nopayload"]

NoRequest == [type |-> "norequest"]

\* ValueError('No active experiment')
EmptyRunQueue == "ValueError: No active experiment"

\* ValueError('Workspace id is required')
MissingWorkspaceError == "ValueError: Workspace id is required"

\* ValueError('Model is empty')
ModelIsEmpty == "ValueError: Model is empty"

\* What the world outside the client does during one save_model: nothing
\* goes wrong, the framework's save routine raises, or ApiClient.doPost raises.
Environment == {"ok", "library raises", "transport raises"}

\* A call that has done nothing yet: op and arg as given, pending the number
\* of runs in the queue when it was made.
Call(op, arg, pending) ==
    [op |-> op, arg |-> arg, pending |-> pending, run |-> 0, outcome |-> "ok",
     serializer |-> NotCalled, payload |-> NoPayload, request |-> NoRequest]

Handle(h) == [type |-> "Experiment", id |-> h]

-----------------------------------------------------------------------------
(* Client.save_model *)

\* save_model lines 132-141: serialize, build the payload, print the file
\* name, POST.
serialize_and_post(call, experiment, model, env) ==
    IF (\E c \in Categories : isinstance(model, c)) /\ env = "library raises" THEN
        [call EXCEPT !.outcome = "SerializeError", !.serializer = Raised]
    ELSE
        LET result == serialize_model(model) IN
        IF result = PyNone THEN
            \* unpacking None into three names
            [call EXCEPT !.outcome = "TypeError", !.serializer = PyNone]
        ELSE
            LET payload ==
                    [runtime |-> get_runtime_version,
                     framework |-> result.framework,
                     parameters |->
                         encode_utf8(json_dumps(experiment.pretraining_metadata)),
                     metrics |->
                         encode_utf8(json_dumps(experiment.posttraining_metadata)),
                     model |-> b64encode(result.serialized_model)]
                built_ == [call EXCEPT !.serializer = result, !.payload = payload]
            IN
            IF result.model_file = PyNone THEN
                \* print(model_file.name) on None
                [built_ EXCEPT !.outcome = "AttributeError"]
            ELSE
                LET request ==
                        [method |-> "POST",
                         url |-> build_url(<< <<"w","o","r","k","s","p","a","c","e">>,
                                              experiment.workspace_id.chars,
                                              <<"e","x","p","e","r","i","m","e","n","t">> >>),
                         data |-> payload]
                IN
                IF env # "transport raises" THEN [built_ EXCEPT !.request = request]
                ELSE [built_ EXCEPT !.outcome = "TransportError",
                                    !.request = request]

\* Mutant: the model is serialized before the workspace id is checked.
save_model_body_serialize_first(call, experiment, model, env) ==
    IF experiment.workspace_id = PyNone THEN
        [call EXCEPT !.outcome = MissingWorkspaceError,
                     !.serializer = serialize_model(model)]
    ELSE serialize_and_post(call, experiment, model, env)

\* save_model lines 128-141, once Queue.get() has returned the experiment
save_model_body(call, experiment, model, env) ==
    IF experiment.workspace_id = PyNone THEN
        [call EXCEPT !.outcome = MissingWorkspaceError]
    ELSE serialize_and_post(call, experiment, model, env)

\* Client.save_model(model), called as op with argument arg
save_model(op, arg, model, env) ==
    LET call == Call(op, arg, Len(queue)) IN
    IF queue = <<>> THEN
        \* Queue.get() blocks until an item is put; no other thread puts one
        /\ pc' = "blocked"
        /\ last' = [call EXCEPT !.outcome = "blocked"]
        /\ UNCHANGED <<experiments, queue>>
    ELSE
        LET got == QueueGet(queue) IN
        /\ queue' = got.rest
        /\ last' = save_model_body([call EXCEPT !.run = got.item],
                                   experiments[got.item], model,
                                   env)
        /\ UNCHANGED <<experiments, pc>>

-----------------------------------------------------------------------------
(* Operations of the caller *)

\* Client.start_run(workspace_id)
StartRun(workspace_id) ==
    /\ pc = "ready"
    /\ Len(experiments) < MaxRuns
    /\ experiments' = Append(experiments, Experiment(workspace_id))
    /\ queue' = QueuePut(queue, Len(experiments) + 1)
    /\ last' = Call("start_run", workspace_id, Len(queue))
    /\ UNCHANGED <<pc, paths, built>>

\* Client.log_pretraining_metadata(metadata)
LogPretrainingMetadata(metadata) ==
    /\ pc = "ready"
    /\ LET call == Call("log_pretraining_metadata", metadata, Len(queue)) IN
       IF ~QueueHasLen THEN
           /\ last' = [call EXCEPT !.outcome = "TypeError"]
           /\ UNCHANGED experiments
       ELSE IF Len(queue) = 0 THEN
           /\ last' = [call EXCEPT !.outcome = EmptyRunQueue]
           /\ UNCHANGED experiments
       ELSE
           /\ experiments' =
                  [experiments EXCEPT ![queue[1]].pretraining_metadata = metadata]
           /\ last' = call
    /\ UNCHANGED <<queue, pc, paths, built>>

\* Client.log_posttraining_metadata(metadata)
LogPosttrainingMetadata(metadata) ==
    /\ pc = "ready"
    /\ LET call == Call("log_posttraining_metadata", metadata, Len(queue)) IN
       IF ~QueueHasLen THEN
           /\ last' = [call EXCEPT !.outcome = "TypeError"]
           /\ UNCHANGED experiments
       ELSE IF Len(queue) = 0 THEN
           /\ last' = [call EXCEPT !.outcome = EmptyRunQueue]
           /\ UNCHANGED experiments
       ELSE
           /\ experiments' =
                  [experiments EXCEPT ![queue[1]].posttraining_metadata = metadata]
           /\ last' = call
    /\ UNCHANGED <<queue, pc, paths, built>>

\* Client.save_model(model)
SaveModel(model, env) ==
    /\ pc = "ready"
    /\ save_model("save_model", model, model, env)
    /\ UNCHANGED <<paths, built>>

\* Experiment.pretraining_metadata setter on handle h
SetPretrainingMetadata(h, metadata) ==
    /\ pc = "ready"
    /\ h \in 1..Len(experiments)
    /\ experiments' = [experiments EXCEPT ![h].pretraining_metadata = metadata]
    /\ last' = Call("setattr", PyNone, Len(queue))
    /\ UNCHANGED <<queue, pc, paths, built>>

\* Experiment.posttraining_metadata setter on handle h
SetPosttrainingMetadata(h, metadata) ==
    /\ pc = "ready"
    /\ h \in 1..Len(experiments)
    /\ experiments' = [experiments EXCEPT ![h].posttraining_metadata = metadata]
    /\ last' = Call("setattr", PyNone, Len(queue))
    /\ UNCHANGED <<queue, pc, paths, built>>

\* Experiment.serializable_model setter on handle h
SetSerializableModel(h, model) ==
    /\ pc = "ready"
    /\ h \in 1..Len(experiments)
    /\ experiments' = [experiments EXCEPT ![h].serializable_model = model]
    /\ last' = Call("setattr", PyNone, Len(queue))
    /\ UNCHANGED <<queue, pc, paths, built>>

\* Mutant: save() without the 'Model is empty' check.
SaveUnchecked(h, env) ==
    /\ pc = "ready"
    /\ h \in 1..Len(experiments)
    /\ save_model("save", Handle(h), experiments[h].serializable_model, env)
    /\ UNCHANGED <<paths, built>>

\* Experiment.save() on handle h
Save(h, env) ==
    /\ pc = "ready"
    /\ h \in 1..Len(experiments)
    /\ IF experiments[h].serializable_model = PyNone THEN
           /\ last' = [Call("save", Handle(h), Len(queue))
                           EXCEPT !.outcome = ModelIsEmpty]
           /\ UNCHANGED <<experiments, queue, pc>>
       ELSE
           save_model("save", Handle(h), experiments[h].serializable_model,
                      env)
    /\ UNCHANGED <<paths, built>>

NotBuilt == [type |-> "notbuilt"]

\* Client.__init__: an empty queue, nothing called yet
Init ==
    /\ experiments = <<>>
    /\ queue = <<>>
    /\ pc = "ready"
    /\ last = Call("__init__", PyNone, 0)
    /\ paths = <<>>
    /\ built = NotBuilt

Next ==
    \/ \E w \in WorkspaceIds : StartRun(w)
    \/ \E m \in Metadata : LogPretrainingMetadata(m)
    \/ \E m \in Metadata : LogPosttrainingMetadata(m)
    \/ \E model \in Models, env \in Environment : SaveModel(model, env)
    \/ \E h \in 1..MaxRuns, m \in Metadata : SetPretrainingMetadata(h, m)
    \/ \E h \in 1..MaxRuns, m \in Metadata : SetPosttrainingMetadata(h, m)
    \/ \E h \in 1..MaxRuns, model \in HandleModels \cup {PyNone} :
           SetSerializableModel(h, model)
    \/ \E h \in 1..MaxRuns, env \in Environment : Save(h, env)

Spec == Init /\ [][Next]_vars

-----------------------------------------------------------------------------
(* The request builder on its own *)

Segments == UNION {[1..n -> Alphabet] : n \in 0..MaxSegLen}

PathInputs == UNION {[1..n -> Segments] : n \in 0..MaxSegs}

InitUrl ==
    /\ experiments = <<>>
    /\ queue = <<>>
    /\ pc = "ready"
    /\ last = Call("__init__", PyNone, 0)
    /\ paths \in PathInputs
    /\ built = NotBuilt

\* Client.__build_url(*paths)
BuildUrl ==
    /\ built = NotBuilt
    /\ built' = PyStr(build_url(paths))
    /\ UNCHANGED <<experiments, queue, pc, last, paths>>

NextUrl == BuildUrl

SpecUrl == InitUrl /\ [][NextUrl]_vars

-----------------------------------------------------------------------------
(* Vocabulary of the properties *)

LogOps == {"log_pretraining_metadata", "log_posttraining_metadata"}

SaveOps == {"save_model", "save"}

Range(f) == {f[i] : i \in DOMAIN f}

\* The model the serializer was, or would have been, handed by the last call.
SavedModel ==
    IF last.op = "save" THEN experiments[last.arg.id].serializable_model
    ELSE last.arg

\* 'workspace/{w}/experiment' for the str w
ExperimentUrl(w) ==
    <<"w","o","r","k","s","p","a","c","e">> \o <<Sep>> \o w.chars \o <<Sep>>
        \o <<"e","x","p","e","r","i","m","e","n","t">>

\* The last call got a run from the queue and went on to the serializer.
SerializerReached ==
    /\ last.op \in SaveOps
    /\ last.run # 0
    /\ experiments[last.run].workspace_id # PyNone
    /\ SavedModel # PyNone

FrameworkTags == {"sklearn", "tensorflow", "pytorch"}

\* The tag of the earliest category, in the order estimator, layered network,
\* tensor module, that the model matches.
FirstMatchTag(model) ==
    IF "estimator" \in model.bases THEN "sklearn"
    ELSE IF "network" \in model.bases THEN "tensorflow"
    ELSE IF "module" \in model.bases THEN "pytorch"
    ELSE "none"

-----------------------------------------------------------------------------
(* C1 *)

\* C1: when the pending-run collection is empty, a log_pretraining_metadata
\* or log_posttraining_metadata call ends in EmptyRunQueue ('No active
\* experiment') and in no other failure, leaves the collection empty and
\* makes no transport call.
C1_LogOnEmptyRaisesEmptyRunQueue ==
    (last.op \in LogOps /\ last.pending = 0) =>
        /\ last.outcome = EmptyRunQueue
        /\ queue = <<>>
        /\ last.request = NoRequest

-----------------------------------------------------------------------------
(* C2 *)

\* C2: when the pending-run collection is empty, save_model terminates with
\* EmptyRunQueue: it does not block, makes no transport call, and the
\* collection stays empty.
C2_SaveOnEmptyRaisesEmptyRunQueue ==
    (last.op = "save_model" /\ last.pending = 0) =>
        /\ pc # "blocked"
        /\ last.outcome = EmptyRunQueue
        /\ last.request = NoRequest
        /\ queue = <<>>

-----------------------------------------------------------------------------
(* C3 *)

\* C3: with at least one pending run, log_pretraining_metadata(m) (resp.
\* log_posttraining_metadata(m)) sets that metadata of the head run to m and
\* changes nothing else: not the other runs, not the head's other mapping,
\* not the order or membership of the collection.
C3_LogSetsHeadMetadataOnly ==
    [][(last'.op \in LogOps /\ queue # <<>>) =>
          /\ last'.outcome = "ok"
          /\ queue' = queue
          /\ experiments' =
                 IF last'.op = "log_pretraining_metadata"
                 THEN [experiments EXCEPT
                           ![Head(queue)].pretraining_metadata = last'.arg]
                 ELSE [experiments EXCEPT
                           ![Head(queue)].posttraining_metadata = last'.arg]]_vars

-----------------------------------------------------------------------------
(* C4 *)

\* C4: runs leave the pending-run collection in the order they were started:
\* the collection always holds exactly the most recently started runs that
\* were not yet consumed, oldest first; a save_model that gets a run from the
\* collection removes exactly one run, the head, which is the k-th started
\* run for the k-th such save_model; a consumed run is never in the
\* collection again.  (A save_model that finds the collection empty waits in
\* Queue.get() and removes nothing.)
C4_RunsConsumedInStartOrder ==
    /\ queue = [i \in 1..Len(queue) |-> Len(experiments) - Len(queue) + i]
    /\ (last.op \in SaveOps /\ last.run # 0) =>
           /\ Len(queue) = last.pending - 1
           /\ last.run = Len(experiments) - Len(queue)
           /\ last.run \notin Range(queue)
    /\ (last.op \in SaveOps /\ last.run = 0) => Len(queue) = last.pending

\* Two runs were started before the first save_model, which consumed the
\* first of them.
C4_Witness ==
    /\ last.op = "save_model"
    /\ last.run = 1
    /\ queue = <<2>>

-----------------------------------------------------------------------------
(* C5 *)

\* C5: when the head run's workspace id is unset, save_model fails with
\* MissingWorkspaceError before the model is serialized, before a payload is
\* built and before any POST.
C5_MissingWorkspaceBeforeSerialize ==
    (/\ last.op \in SaveOps
     /\ last.run # 0
     /\ experiments[last.run].workspace_id = PyNone) =>
        /\ last.outcome = MissingWorkspaceError
        /\ last.serializer = NotCalled
        /\ last.payload = NoPayload
        /\ last.request = NoRequest

C5_Witness ==
    /\ last.op = "save_model"
    /\ last.run # 0
    /\ experiments[last.run].workspace_id = PyNone
    /\ last.arg.bases # {}
    /\ last.outcome = MissingWorkspaceError

-----------------------------------------------------------------------------
(* C6 *)

\* C6: start_run(w) with a set workspace id, followed immediately by
\* save_model(model) for a model of any one of the three categories, reaches
\* the POST to 'workspace/{w}/experiment' with parameters and metrics the
\* JSON text of the empty mapping (unless the framework's save routine
\* itself raises).
C6_FreshRunSaveReachesPost ==
    [][(/\ last.op = "start_run"
        /\ last.arg # PyNone
        /\ queue = <<Len(experiments)>>
        /\ last'.op = "save_model"
        /\ Cardinality(last'.arg.bases) = 1
        /\ last'.outcome # "SerializeError") =>
           /\ last'.request # NoRequest
           /\ last'.request.method = "POST"
           /\ last'.request.url = ExperimentUrl(last.arg)
           /\ last'.request.data.parameters.text = "{}"
           /\ last'.request.data.metrics.text = "{}"]_vars

-----------------------------------------------------------------------------
(* C7 *)

\* C7: a run removed by save_model stays removed whatever fails afterwards:
\* it is never put back, its upload is not attempted again, and the next
\* log_* or save_model call addresses the next-oldest run, or fails with
\* EmptyRunQueue if none is pending.
C7_RemovedRunStaysRemoved ==
    [][/\ \A i \in 1..Len(experiments) :
              i \notin Range(queue) => i \notin Range(queue')
       /\ (last.op \in SaveOps /\ last.run # 0 /\ last.outcome # "ok") =>
              /\ (last'.request # NoRequest) => last'.run # last.run
              /\ (last'.op = "save_model" /\ queue # <<>>) =>
                     last'.run = Head(queue)
              /\ (last'.op \in LogOps /\ queue # <<>>) =>
                     /\ last'.outcome = "ok"
                     /\ last'.arg \in
                            {experiments'[Head(queue)].pretraining_metadata,
                             experiments'[Head(queue)].posttraining_metadata}
              /\ (last'.op \in LogOps \cup {"save_model"} /\ queue = <<>>) =>
                     last'.outcome = EmptyRunQueue]_vars

-----------------------------------------------------------------------------
(* C8 *)

NoDoubledSeparator(s) ==
    \A i \in 1..(Len(s) - 1) : ~(s[i] = Sep /\ s[i + 1] = Sep)

NoOuterSeparator(s) ==
    s # <<>> => (s[1] # Sep /\ s[Len(s)] # Sep)

\* C8 as stated: for every sequence of segments over the alphabet, the
\* request builder's output has no doubled separator and neither starts nor
\* ends with a separator.
C8_AnySegmentsGiveCleanPath ==
    built # NotBuilt =>
        (NoDoubledSeparator(built.chars) /\ NoOuterSeparator(built.chars))

\* A segment with something other than separators in it, and no two adjacent
\* separators between its first and its last such character.
ProperSegment(s) ==
    /\ \E i \in 1..Len(s) : s[i] # Sep
    /\ \A i \in 1..(Len(s) - 1) :
           (s[i] = Sep /\ s[i + 1] = Sep) =>
               \/ \A k \in 1..i : s[k] = Sep
               \/ \A k \in (i + 1)..Len(s) : s[k] = Sep

\* C8 amended: when every segment is a proper segment, with any number of
\* leading and trailing separators, the request builder's output has no
\* doubled separator and neither starts nor ends with a separator.
C8_ProperSegmentsGiveCleanPath ==
    (built # NotBuilt /\ \A i \in 1..Len(paths) : ProperSegment(paths[i])) =>
        (NoDoubledSeparator(built.chars) /\ NoOuterSeparator(built.chars))

\* Two proper segments were joined, the first with trailing separators and
\* the second with leading ones.
C8_Witness ==
    /\ built # NotBuilt
    /\ Len(paths) = 2
    /\ \A i \in 1..Len(paths) : ProperSegment(paths[i])
    /\ paths[1][Len(paths[1])] = Sep
    /\ paths[2][1] = Sep
    /\ Len(built.chars) = 3

-----------------------------------------------------------------------------
(* C9 *)

\* C9 as stated: every call of the serializer that returns yields exactly one
\* framework tag from {sklearn, tensorflow, pytorch}, the tag of the first
\* category the model matches in the order estimator, layered network,
\* tensor module, and save_model's payload carries that tag.
C9_SerializerAlwaysTags ==
    (SerializerReached /\ last.serializer # Raised) =>
        /\ last.serializer # PyNone
        /\ last.serializer.framework \in FrameworkTags
        /\ last.serializer.framework = FirstMatchTag(SavedModel)
        /\ last.payload # NoPayload
        /\ last.payload.framework = last.serializer.framework

\* C9 amended: every call of the serializer that returns, on a model that
\* matches at least one of the three categories, yields exactly one framework
\* tag from {sklearn, tensorflow, pytorch}, the tag of the first category
\* matched in the order estimator, layered network, tensor module, and
\* save_model's payload carries that tag.
C9_SerializerTagsMatchedModels ==
    (/\ SerializerReached
     /\ last.serializer # Raised
     /\ SavedModel.bases # {}) =>
        /\ last.serializer # PyNone
        /\ last.serializer.framework \in FrameworkTags
        /\ last.serializer.framework = FirstMatchTag(SavedModel)
        /\ last.payload # NoPayload
        /\ last.payload.framework = last.serializer.framework

\* A model of two categories went through the serializer and into a payload.
C9_Witness ==
    /\ SerializerReached
    /\ Cardinality(SavedModel.bases) = 2
    /\ last.payload # NoPayload
    /\ last.request # NoRequest

-----------------------------------------------------------------------------
(* C10 *)

\* C10: Experiment.save() on a handle h without a model fails with 'Model is
\* empty', leaves the pending-run collection unchanged and makes no transport
\* call; with a model, once Queue.get() hands it a run it has removed exactly
\* one run, the oldest pending one, and any upload carries that run's
\* workspace id and metadata together with h's model, so the run consumed is
\* h only when h is the head.  (With nothing pending the call waits in
\* Queue.get() and removes nothing.)
C10_SaveConsumesHeadNotHandle ==
    [][(last'.op = "save") =>
          LET h == last'.arg.id
              model == experiments[h].serializable_model
          IN
          IF model = PyNone THEN
              /\ last'.outcome = ModelIsEmpty
              /\ queue' = queue
              /\ last'.request = NoRequest
              /\ pc' = pc
          ELSE IF queue = <<>> THEN
              /\ pc' = "blocked"
              /\ queue' = queue
              /\ last'.request = NoRequest
          ELSE
              /\ queue' = Tail(queue)
              /\ last'.run = Head(queue)
              /\ (last'.run = h) <=> (h = Head(queue))
              /\ experiments' = experiments
              /\ (last'.request # NoRequest) =>
                     LET head == experiments[Head(queue)] IN
                     /\ last'.request.url = ExperimentUrl(head.workspace_id)
                     /\ last'.request.data.parameters =
                            encode_utf8(json_dumps(head.pretraining_metadata))
                     /\ last'.request.data.metrics =
                            encode_utf8(json_dumps(head.posttraining_metadata))
                     /\ last'.request.data.model.base64_of.of = model]_vars

\* save() on the second handle consumed and uploaded the first run, whose
\* metadata differs from the second's.
C10_Witness ==
    /\ last.op = "save"
    /\ last.arg.id = 2
    /\ last.run = 1
    /\ last.request # NoRequest
    /\ last.outcome = "ok"
    /\ experiments[1].pretraining_metadata # experiments[2].pretraining_metadata

====
